---------------------------- MODULE Spec2Model ----------------------------
(***************************************************************************)
(* Model of the extraction pipeline of src/src/nlu/extractor.py:           *)
(* the lazily loaded engine handle (get_nlp), the keyword classifiers,     *)
(* the application-name extractor over the annotated structure, the        *)
(* attribute-token pattern and the attribute router of extract_entities.   *)
(*                                                                         *)
(* A text is a sequence of one-character strings.  An Optional[str] is a   *)
(* sequence of length 0 (None) or 1 (the string).  An absent Intent or     *)
(* RuleType is the string "None".                                          *)
(***************************************************************************)
EXTENDS Naturals, Sequences, FiniteSets

VARIABLES
    \* --- process-wide state and the calls of extract_entities ---
    NLP,            \* the module global: 0 is None, h > 0 the h-th loaded engine
    loaded,         \* number of spacy.load calls that returned an engine
    attempts,       \* number of spacy.load calls made (returned or raised)
    pc,             \* pc[t]: where thread t stands in extract_entities/get_nlp
    input,          \* input[t]: the text of t's current call
    handle,         \* handle[t]: the engine t's spacy.load returned
    nlp,            \* nlp[t]: the local nlp of extract_entities
    tdoc,           \* tdoc[t]: the local doc of extract_entities
    outcome,        \* outcome[t]: what t's last finished call gave its caller
    raised,         \* raised[t]: the exception spacy.load raised in t's call, "" if none
    callAttempts,   \* callAttempts[t]: spacy.load calls made by t's current call
    startedLoaded,  \* startedLoaded[t]: NLP was set when t's current call began
    ncalls,         \* calls begun so far
    history,        \* the returns so far, in order: records [text, nlp, result]
    overlap,        \* two calls have been in progress at the same time
    engine,         \* the analysis the loaded model computes, text -> doc
    \* --- one call of extract_entities after line 116, statement by statement ---
    ppc, text, doc, intent, rule_type, application, attributes,
    source_attrs, identity_attrs, result

callVars == <<NLP, loaded, attempts, pc, input, handle, nlp, tdoc, outcome, raised,
              callAttempts, startedLoaded, ncalls, history, overlap, engine>>
pipeVars == <<ppc, text, doc, intent, rule_type, application, attributes,
              source_attrs, identity_attrs, result>>
vars == <<callVars, pipeVars>>

-----------------------------------------------------------------------------
(* Strings *)

UpperSeq == <<"A","B","C","D","E","F","G","H","I","J","K","L","M",
              "N","O","P","Q","R","S","T","U","V","W","X","Y","Z">>
LowerSeq == <<"a","b","c","d","e","f","g","h","i","j","k","l","m",
              "n","o","p","q","r","s","t","u","v","w","x","y","z">>

Range(s) == {s[i] : i \in DOMAIN s}

Uppers == Range(UpperSeq)
Lowers == Range(LowerSeq)
Digits == {"0","1","2","3","4","5","6","7","8","9"}

\* str.lower() on one character
LowerChar(c) ==
    IF c \in Uppers
    THEN LowerSeq[CHOOSE i \in DOMAIN UpperSeq : UpperSeq[i] = c]
    ELSE c

\* str.lower()
Lower(s) == [i \in DOMAIN s |-> LowerChar(s[i])]

\* Python's  sub in s  on strings
Contains(sub, s) ==
    \E i \in 1..(Len(s) + 1) :
        /\ i + Len(sub) - 1 <= Len(s)
        /\ SubSeq(s, i, i + Len(sub) - 1) = sub

\* any(w in s for w in words)
AnyIn(words, s) == \E k \in DOMAIN words : Contains(words[k], s)

-----------------------------------------------------------------------------
(* Intent and RuleType *)

GENERATE_RULE == "Generate Rule"
MODIFY_RULE == "Modify Rule"
EXPLAIN_RULE == "Explain Rule"

CORRELATION == "Correlation"
BUILD_MAP == "BuildMap"
PRE_ITERATE == "PreIterate"

None == "None"

GenerateVerbs == << <<"c","r","e","a","t","e">>,
                    <<"g","e","n","e","r","a","t","e">>,
                    <<"m","a","k","e">>,
                    <<"b","u","i","l","d">> >>
ModifyVerbs == << <<"c","h","a","n","g","e">>,
                  <<"m","o","d","i","f","y">>,
                  <<"u","p","d","a","t","e">>,
                  <<"a","m","e","n","d">> >>
ExplainPhrases == << <<"e","x","p","l","a","i","n">>,
                     <<"d","e","s","c","r","i","b","e">>,
                     <<"w","h","a","t"," ","i","s">> >>

KwCorrelation == <<"c","o","r","r","e","l","a","t","i","o","n">>
KwBuildMapSp == <<"b","u","i","l","d"," ","m","a","p">>
KwBuildMap == <<"b","u","i","l","d","m","a","p">>
KwPreIterateHy == <<"p","r","e","-","i","t","e","r","a","t","e">>
KwPreIterate == <<"p","r","e","i","t","e","r","a","t","e">>

\* the modify-verbs tested before the generate-verbs
IntentModifyFirst(t) ==
    LET text_lower == Lower(t)
    IN  IF AnyIn(ModifyVerbs, text_lower) THEN MODIFY_RULE
        ELSE IF AnyIn(GenerateVerbs, text_lower) THEN GENERATE_RULE
        ELSE IF AnyIn(ExplainPhrases, text_lower) THEN EXPLAIN_RULE
        ELSE None

\* "build" left out of the generate-verbs
IntentWithoutBuild(t) ==
    LET text_lower == Lower(t)
    IN  IF AnyIn(SubSeq(GenerateVerbs, 1, 3), text_lower) THEN GENERATE_RULE
        ELSE IF AnyIn(ModifyVerbs, text_lower) THEN MODIFY_RULE
        ELSE IF AnyIn(ExplainPhrases, text_lower) THEN EXPLAIN_RULE
        ELSE None

_extract_intent(t) ==
    LET text_lower == Lower(t)
    IN  IF AnyIn(GenerateVerbs, text_lower) THEN GENERATE_RULE
        ELSE IF AnyIn(ModifyVerbs, text_lower) THEN MODIFY_RULE
        ELSE IF AnyIn(ExplainPhrases, text_lower) THEN EXPLAIN_RULE
        ELSE None

\* the BuildMap keywords tested before "correlation"
RuleTypeBuildMapFirst(t) ==
    LET text_lower == Lower(t)
    IN  IF Contains(KwBuildMapSp, text_lower) \/ Contains(KwBuildMap, text_lower)
             THEN BUILD_MAP
        ELSE IF Contains(KwCorrelation, text_lower) THEN CORRELATION
        ELSE IF Contains(KwPreIterateHy, text_lower) \/ Contains(KwPreIterate, text_lower)
             THEN PRE_ITERATE
        ELSE None

_extract_rule_type(t) ==
    LET text_lower == Lower(t)
    IN  IF Contains(KwCorrelation, text_lower) THEN CORRELATION
        ELSE IF Contains(KwBuildMapSp, text_lower) \/ Contains(KwBuildMap, text_lower)
             THEN BUILD_MAP
        ELSE IF Contains(KwPreIterateHy, text_lower) \/ Contains(KwPreIterate, text_lower)
             THEN PRE_ITERATE
        ELSE None

-----------------------------------------------------------------------------
(* The annotated structure (spaCy Doc) and _extract_application.            *)
(* A doc is [tokens, chunks]; a token is [text, dep, head] with head the    *)
(* position of its head token; a noun chunk is [start, end, root] covering  *)
(* the token positions start <= i < end.  Positions count from 1.           *)

POBJ == "pobj"

prepositions == { <<"f","o","r">>, <<"f","r","o","m">>, <<"o","n">> }

RECURSIVE JoinTexts(_, _, _)
\* Span.text: the texts of the tokens at positions from .. to-1, space-separated
JoinTexts(tokens, from, to) ==
    IF from >= to THEN <<>>
    ELSE IF from + 1 = to THEN tokens[from].text
    ELSE tokens[from].text \o <<" ">> \o JoinTexts(tokens, from + 1, to)

ChunkText(d, chunk) == JoinTexts(d.tokens, chunk.start, chunk.end)

HeadText(d, i) == d.tokens[d.tokens[i].head].text

RECURSIVE ChunkContainingInclusiveEnd(_, _, _)
\* the chunk's end taken as its last token
ChunkContainingInclusiveEnd(d, i, k) ==
    IF k > Len(d.chunks) THEN <<d.tokens[i].text>>
    ELSE IF i >= d.chunks[k].start /\ i <= d.chunks[k].end
         THEN <<ChunkText(d, d.chunks[k])>>
         ELSE ChunkContainingInclusiveEnd(d, i, k + 1)

RECURSIVE ChunkContaining(_, _, _)
\* lines 70-73: the inner loop over doc.noun_chunks, from chunk k on
ChunkContaining(d, i, k) ==
    IF k > Len(d.chunks) THEN <<d.tokens[i].text>>
    ELSE IF i >= d.chunks[k].start /\ i < d.chunks[k].end
         THEN <<ChunkText(d, d.chunks[k])>>
         ELSE ChunkContaining(d, i, k + 1)

RECURSIVE FallbackChunk(_, _)
\* lines 75-78: the fallback loop over doc.noun_chunks, from chunk k on
FallbackChunk(d, k) ==
    IF k > Len(d.chunks) THEN <<>>
    ELSE IF Lower(HeadText(d, d.chunks[k].root)) \in prepositions
         THEN <<ChunkText(d, d.chunks[k])>>
         ELSE FallbackChunk(d, k + 1)

RECURSIVE ScanTokens(_, _)
\* lines 67-73: the loop over the tokens, from token i on
ScanTokens(d, i) ==
    IF i > Len(d.tokens) THEN FallbackChunk(d, 1)
    ELSE IF d.tokens[i].dep = POBJ /\ Lower(HeadText(d, i)) \in prepositions
         THEN ChunkContaining(d, i, 1)
         ELSE ScanTokens(d, i + 1)

_extract_application(d) == ScanTokens(d, 1)

-----------------------------------------------------------------------------
(* _ATTR_PATTERN and _extract_attributes.                                   *)
(* A pattern is a tree: cls (one character of a set), b (\b), cat, plus     *)
(* (greedy +), star (greedy * ).  MatchEnds gives, in the order the         *)
(* backtracking matcher tries them, the positions at which a match of the   *)
(* pattern begun at position i can end; the matcher takes the first.        *)

Cls(S) == [op |-> "cls", set |-> S]
WordB == [op |-> "b"]
Cat(args) == [op |-> "cat", args |-> args]
Plus(r) == [op |-> "plus", arg |-> r]
Star(r) == [op |-> "star", arg |-> r]

\* \w for the characters of the model's texts
WordChars == Lowers \cup Uppers \cup Digits \cup {"_"}

IsWordAt(s, i) == i >= 1 /\ i <= Len(s) /\ s[i] \in WordChars

\* \b before position i
Boundary(s, i) == IsWordAt(s, i - 1) # IsWordAt(s, i)

RECURSIVE MatchEnds(_, _, _), CatEnds(_, _, _, _), FlatEnds(_, _, _, _), PlusEnds(_, _, _, _)

MatchEnds(re, s, i) ==
    CASE re.op = "cls" -> IF i <= Len(s) /\ s[i] \in re.set THEN <<i + 1>> ELSE <<>>
      [] re.op = "b" -> IF Boundary(s, i) THEN <<i>> ELSE <<>>
      [] re.op = "cat" -> CatEnds(re.args, 1, s, <<i>>)
      [] re.op = "plus" -> PlusEnds(re.arg, s, MatchEnds(re.arg, s, i), 1)
      [] re.op = "star" -> PlusEnds(re.arg, s, MatchEnds(re.arg, s, i), 1) \o <<i>>

\* the ends of args[k], args[k+1], ... matched in turn from each of starts
CatEnds(args, k, s, starts) ==
    IF k > Len(args) THEN starts
    ELSE CatEnds(args, k + 1, s, FlatEnds(args[k], s, starts, 1))

\* the ends of re from starts[j], starts[j+1], ... in that order
FlatEnds(re, s, starts, j) ==
    IF j > Len(starts) THEN <<>>
    ELSE MatchEnds(re, s, starts[j]) \o FlatEnds(re, s, starts, j + 1)

\* greedy repetition: after one match ending at firsts[j], more repetitions
\* are tried before stopping there
PlusEnds(r, s, firsts, j) ==
    IF j > Len(firsts) THEN <<>>
    ELSE PlusEnds(r, s, MatchEnds(r, s, firsts[j]), 1) \o <<firsts[j]>>
         \o PlusEnds(r, s, firsts, j + 1)

LowerDigit == Lowers \cup Digits
QuotedChars == Lowers \cup Uppers \cup Digits \cup {"_", "."}

\* line 87: \b[a-z]+[A-Z][A-Za-z0-9_]*\b
CamelPattern == Cat(<<WordB, Plus(Cls(Lowers)), Cls(Uppers), Star(Cls(WordChars)), WordB>>)
\* line 89: \b[a-z0-9]+(?:_[a-z0-9]+)+\b
SnakePattern == Cat(<<WordB, Plus(Cls(LowerDigit)),
                      Plus(Cat(<<Cls({"_"}), Plus(Cls(LowerDigit))>>)), WordB>>)
\* line 91: '([A-Za-z0-9_.]+)'
SingleQuoted == Cat(<<Cls({"'"}), Plus(Cls(QuotedChars)), Cls({"'"})>>)
\* line 93: "([A-Za-z0-9_.]+)"
DoubleQuoted == Cat(<<Cls({"\""}), Plus(Cls(QuotedChars)), Cls({"\""})>>)

\* the alternatives in the order the pattern lists them
_ATTR_PATTERN == <<CamelPattern, SnakePattern, SingleQuoted, DoubleQuoted>>

RECURSIVE MatchAlt(_, _, _)
\* the match begun at position i: the first alternative, from the k-th on,
\* that matches there; end = 0 when none does
MatchAlt(s, i, k) ==
    IF k > Len(_ATTR_PATTERN) THEN [start |-> i, end |-> 0, alt |-> 0]
    ELSE LET ends == MatchEnds(_ATTR_PATTERN[k], s, i)
         IN  IF ends # <<>> THEN [start |-> i, end |-> Head(ends), alt |-> k]
             ELSE MatchAlt(s, i, k + 1)

RECURSIVE finditer(_, _)
\* re.finditer: the non-overlapping matches from position pos on, left to right
finditer(s, pos) ==
    IF pos > Len(s) THEN <<>>
    ELSE LET m == MatchAlt(s, pos, 1)
         IN  IF m.end = 0 THEN finditer(s, pos + 1)
             ELSE <<m>> \o finditer(s, m.end)

\* match.group(0)
Group0(s, m) == SubSeq(s, m.start, m.end - 1)
\* match.group(1), match.group(2): the text inside the quotes as an optional
Group1(s, m) == IF m.alt = 3 THEN <<SubSeq(s, m.start + 1, m.end - 2)>> ELSE <<>>
Group2(s, m) == IF m.alt = 4 THEN <<SubSeq(s, m.start + 1, m.end - 2)>> ELSE <<>>

\* Python truthiness of an Optional[str]
Truthy(g) == g # <<>> /\ g[1] # <<>>

\* the whole match appended, quotes and all
AttrOfMatchUnstripped(s, m) == Group0(s, m)

\* lines 101-109: what one match appends to results
AttrOfMatch(s, m) ==
    LET g1 == Group1(s, m)
        g2 == Group2(s, m)
    IN  IF Truthy(g1) THEN g1[1]
        ELSE IF Truthy(g2) THEN g2[1]
        ELSE Group0(s, m)

_extract_attributes(t) ==
    LET ms == finditer(t, 1)
    IN  [j \in DOMAIN ms |-> AttrOfMatch(t, ms[j])]

-----------------------------------------------------------------------------
(* extract_entities, lines 118-139, for one call *)

\* the split made whatever the rule type
RouteAnyRuleType(rt, attrs) ==
    IF Len(attrs) >= 2
    THEN [source |-> <<attrs[1]>>, identity |-> <<attrs[2]>>]
    ELSE [source |-> attrs, identity |-> <<>>]

\* lines 123-131: the split of the attributes into source and identity
Route(rt, attrs) ==
    IF rt = BUILD_MAP /\ Len(attrs) >= 2
    THEN [source |-> <<attrs[1]>>, identity |-> <<attrs[2]>>]
    ELSE [source |-> attrs, identity |-> <<>>]

\* lines 133-139
ExtractionResult(i, rt, app, src, idn) ==
    [intent |-> i, rule_type |-> rt, application_name |-> app,
     source_attributes |-> src, identity_attributes |-> idn]

\* lines 118-139 as one function of the text and its doc
ExtractionOf(t, d) ==
    LET r == Route(_extract_rule_type(t), _extract_attributes(t))
    IN  ExtractionResult(_extract_intent(t), _extract_rule_type(t),
                         _extract_application(d), r.source, r.identity)

\* line 118
StepIntent ==
    /\ ppc = "intent"
    /\ intent' = _extract_intent(text)
    /\ ppc' = "rule_type"
    /\ UNCHANGED callVars
    /\ UNCHANGED <<text, doc, rule_type, application, attributes,
                   source_attrs, identity_attrs, result>>

\* line 119
StepRuleType ==
    /\ ppc = "rule_type"
    /\ rule_type' = _extract_rule_type(text)
    /\ ppc' = "application"
    /\ UNCHANGED callVars
    /\ UNCHANGED <<text, doc, intent, application, attributes,
                   source_attrs, identity_attrs, result>>

\* line 120
StepApplication ==
    /\ ppc = "application"
    /\ application' = _extract_application(doc)
    /\ ppc' = "attributes"
    /\ UNCHANGED callVars
    /\ UNCHANGED <<text, doc, intent, rule_type, attributes,
                   source_attrs, identity_attrs, result>>

\* line 121
StepAttributes ==
    /\ ppc = "attributes"
    /\ attributes' = _extract_attributes(text)
    /\ ppc' = "route"
    /\ UNCHANGED callVars
    /\ UNCHANGED <<text, doc, intent, rule_type, application,
                   source_attrs, identity_attrs, result>>

\* lines 123-131
StepRoute ==
    /\ ppc = "route"
    /\ source_attrs' = Route(rule_type, attributes).source
    /\ identity_attrs' = Route(rule_type, attributes).identity
    /\ ppc' = "assemble"
    /\ UNCHANGED callVars
    /\ UNCHANGED <<text, doc, intent, rule_type, application, attributes, result>>

\* lines 133-139
StepAssemble ==
    /\ ppc = "assemble"
    /\ result' = <<ExtractionResult(intent, rule_type, application,
                                    source_attrs, identity_attrs)>>
    /\ ppc' = "done"
    /\ UNCHANGED callVars
    /\ UNCHANGED <<text, doc, intent, rule_type, application, attributes,
                   source_attrs, identity_attrs>>

NextPipe ==
    \/ StepIntent
    \/ StepRuleType
    \/ StepApplication
    \/ StepAttributes
    \/ StepRoute
    \/ StepAssemble

-----------------------------------------------------------------------------
(* Inputs *)

MaxFrags == 2
MaxAttrs == 3
MaxLen == 5
MaxToks == 2

EmptyDoc == [tokens |-> <<>>, chunks |-> <<>>]

\* "for Active Directory": Directory is the object of for, Active Directory a noun chunk
DocAD ==
    [tokens |-> << [text |-> <<"f","o","r">>, dep |-> "prep", head |-> 1],
                   [text |-> <<"A","c","t","i","v","e">>, dep |-> "compound", head |-> 3],
                   [text |-> <<"D","i","r","e","c","t","o","r","y">>, dep |-> POBJ, head |-> 1] >>,
     chunks |-> << [start |-> 2, end |-> 4, root |-> 3] >>]

SampleDocs == {EmptyDoc, DocAD}

RECURSIVE Flatten(_)
\* the pieces of a sequence of texts, one after the other
Flatten(fs) == IF fs = <<>> THEN <<>> ELSE Head(fs) \o Flatten(Tail(fs))

\* every keyword of the two classifiers, some in other letter cases, a
\* separator and a run of three attribute tokens
KwFrags ==
    { <<"c","r","e","a","t","e">>,
      <<"g","e","n","e","r","a","t","e">>,
      <<"m","a","k","e">>,
      <<"b","u","i","l","d">>,
      <<"c","h","a","n","g","e">>,
      <<"m","o","d","i","f","y">>,
      <<"u","p","d","a","t","e">>,
      <<"a","m","e","n","d">>,
      <<"e","x","p","l","a","i","n">>,
      <<"d","e","s","c","r","i","b","e">>,
      <<"w","h","a","t"," ","i","s">>,
      <<"c","o","r","r","e","l","a","t","i","o","n">>,
      <<"b","u","i","l","d"," ","m","a","p">>,
      <<"b","u","i","l","d","m","a","p">>,
      <<"p","r","e","-","i","t","e","r","a","t","e">>,
      <<"p","r","e","i","t","e","r","a","t","e">>,
      <<"B","u","i","l","d"," ","M","a","p">>,
      <<"C","O","R","R","E","L","A","T","I","O","N">>,
      <<"W","h","a","t"," ","I","s">>,
      <<" ">>,
      <<" ","a","B"," ","'","c","'"," ","d","_","e">> }

\* a rule-type phrase (or none) followed by up to MaxAttrs attribute tokens and words
RoutePrefixes ==
    { <<>>, KwBuildMap \o <<" ">>, KwBuildMapSp \o <<" ">>, KwCorrelation \o <<" ">>,
      KwPreIterateHy \o <<" ">>,
      <<"e","x","p","l","a","i","n"," ">> \o KwCorrelation \o <<" ">> }
AttrFrags ==
    { <<"a","B"," ">>, <<"d","_","e"," ">>, <<"'","c",".","d","'">>,
      <<"\"","X","\"">>, <<"t","o"," ">> }

\* every text of up to MaxLen characters over the characters the pattern tells apart
AttrAlphabet == {"a", "B", "1", "_", "'", "\"", "."}

\* every doc of up to MaxToks tokens
TokTexts == { <<"F","o","r">>, <<"o","n">>, <<"A","D">> }
Deps == {POBJ, "dep"}

TokenSeqs(n) == [1..n -> [text : TokTexts, dep : Deps, head : 1..n]]

RECURSIVE ChunkSeqs(_, _)
\* noun chunks do not overlap and come in document order
ChunkSeqs(from, n) ==
    {<<>>} \cup
    UNION { UNION { { <<[start |-> st, end |-> en, root |-> r]>> \o rest :
                          r \in st..(en - 1), rest \in ChunkSeqs(en, n) }
                    : en \in (st + 1)..(n + 1) }
            : st \in from..n }

\* the texts the callers of the concurrent model pass
Inputs ==
    { <<"b","u","i","l","d","m","a","p"," ","'","i","d","'"," ","u","_","x">>,
      <<"E","x","p","l","a","i","n"," ","a","B">> }

-----------------------------------------------------------------------------
(* get_nlp and extract_entities under concurrent callers.  Each thread      *)
(* makes its calls one after the other, MaxCalls calls are made in all;    *)
(* the steps of a call that touch the global NLP are separate actions.      *)

NThreads == 2
MaxCalls == 2

Threads == 1..NThreads

\* the exceptions spacy.load raises when the model cannot be loaded
LoadErrors == {"OSError", "MemoryError"}

InCall(t) == pc[t] # "idle"

NoOutcome == [kind |-> "none"]

\* lines 118-139 for the texts and docs of this model, computed once
ExtractionTable == [x \in Inputs |-> [d \in SampleDocs |-> ExtractionOf(x, d)]]

\* line 113: a caller enters extract_entities(x)
Call(t, x) ==
    /\ pc[t] = "idle"
    /\ ncalls < MaxCalls
    /\ pc' = [pc EXCEPT ![t] = "get_nlp"]
    /\ input' = [input EXCEPT ![t] = x]
    /\ ncalls' = ncalls + 1
    /\ outcome' = [outcome EXCEPT ![t] = NoOutcome]
    /\ raised' = [raised EXCEPT ![t] = ""]
    /\ handle' = [handle EXCEPT ![t] = 0]
    /\ nlp' = [nlp EXCEPT ![t] = 0]
    /\ tdoc' = [tdoc EXCEPT ![t] = <<>>]
    /\ callAttempts' = [callAttempts EXCEPT ![t] = 0]
    /\ startedLoaded' = [startedLoaded EXCEPT ![t] = (NLP # 0)]
    /\ overlap' = (overlap \/ \E u \in Threads \ {t} : InCall(u))
    /\ UNCHANGED <<NLP, loaded, attempts, history, engine>>
    /\ UNCHANGED pipeVars

\* the load made whether or not NLP is set
TestNLPAlwaysLoad(t) ==
    /\ pc[t] = "get_nlp"
    /\ pc' = [pc EXCEPT ![t] = "load"]
    /\ UNCHANGED <<NLP, loaded, attempts, input, handle, nlp, tdoc, outcome, raised,
                   callAttempts, startedLoaded, ncalls, history, overlap, engine>>
    /\ UNCHANGED pipeVars

\* line 15: if NLP is None
TestNLP(t) ==
    /\ pc[t] = "get_nlp"
    /\ pc' = [pc EXCEPT ![t] = IF NLP = 0 THEN "load" ELSE "ret"]
    /\ UNCHANGED <<NLP, loaded, attempts, input, handle, nlp, tdoc, outcome, raised,
                   callAttempts, startedLoaded, ncalls, history, overlap, engine>>
    /\ UNCHANGED pipeVars

\* line 16, right-hand side: spacy.load returns a new engine
LoadOk(t) ==
    /\ pc[t] = "load"
    /\ loaded' = loaded + 1
    /\ attempts' = attempts + 1
    /\ callAttempts' = [callAttempts EXCEPT ![t] = @ + 1]
    /\ handle' = [handle EXCEPT ![t] = loaded + 1]
    /\ pc' = [pc EXCEPT ![t] = "store"]
    /\ UNCHANGED <<NLP, input, nlp, tdoc, outcome, raised, startedLoaded, ncalls,
                   history, overlap, engine>>
    /\ UNCHANGED pipeVars

\* the exception caught and an empty result returned in its place
LoadFailSwallowed(t) ==
    /\ pc[t] = "load"
    /\ \E e \in LoadErrors : raised' = [raised EXCEPT ![t] = e]
    /\ outcome' = [outcome EXCEPT ![t] =
                      [kind |-> "result",
                       value |-> ExtractionResult(None, None, <<>>, <<>>, <<>>)]]
    /\ attempts' = attempts + 1
    /\ callAttempts' = [callAttempts EXCEPT ![t] = @ + 1]
    /\ pc' = [pc EXCEPT ![t] = "idle"]
    /\ UNCHANGED <<NLP, loaded, input, handle, nlp, tdoc, startedLoaded, ncalls,
                   history, overlap, engine>>
    /\ UNCHANGED pipeVars

\* line 16, right-hand side: spacy.load raises; nothing in get_nlp or
\* extract_entities catches it, so the call ends with that exception
LoadFail(t) ==
    /\ pc[t] = "load"
    /\ \E e \in LoadErrors :
          /\ raised' = [raised EXCEPT ![t] = e]
          /\ outcome' = [outcome EXCEPT ![t] = [kind |-> "error", error |-> e]]
    /\ attempts' = attempts + 1
    /\ callAttempts' = [callAttempts EXCEPT ![t] = @ + 1]
    /\ pc' = [pc EXCEPT ![t] = "idle"]
    /\ UNCHANGED <<NLP, loaded, input, handle, nlp, tdoc, startedLoaded, ncalls,
                   history, overlap, engine>>
    /\ UNCHANGED pipeVars

\* line 16, the assignment to the global
StoreNLP(t) ==
    /\ pc[t] = "store"
    /\ NLP' = handle[t]
    /\ pc' = [pc EXCEPT ![t] = "ret"]
    /\ UNCHANGED <<loaded, attempts, input, handle, nlp, tdoc, outcome, raised,
                   callAttempts, startedLoaded, ncalls, history, overlap, engine>>
    /\ UNCHANGED pipeVars

\* line 17 and line 115: return NLP, bound to the local nlp
ReturnNLP(t) ==
    /\ pc[t] = "ret"
    /\ nlp' = [nlp EXCEPT ![t] = NLP]
    /\ pc' = [pc EXCEPT ![t] = "analyze"]
    /\ UNCHANGED <<NLP, loaded, attempts, input, handle, tdoc, outcome, raised,
                   callAttempts, startedLoaded, ncalls, history, overlap, engine>>
    /\ UNCHANGED pipeVars

\* line 116: doc = nlp(text)
Analyze(t) ==
    /\ pc[t] = "analyze"
    /\ tdoc' = [tdoc EXCEPT ![t] = <<engine[input[t]]>>]
    /\ pc' = [pc EXCEPT ![t] = "extract"]
    /\ UNCHANGED <<NLP, loaded, attempts, input, handle, nlp, outcome, raised,
                   callAttempts, startedLoaded, ncalls, history, overlap, engine>>
    /\ UNCHANGED pipeVars

\* the attribute list kept at module level and never cleared: each call's
\* tokens follow those of the call before
ExtractSharedResults(t) ==
    /\ pc[t] = "extract"
    /\ LET own == ExtractionTable[input[t]][tdoc[t][1]]
           kept == IF history = <<>> THEN <<>>
                   ELSE history[Len(history)].result.source_attributes
           r == [own EXCEPT !.source_attributes = kept \o @]
       IN  /\ outcome' = [outcome EXCEPT ![t] = [kind |-> "result", value |-> r]]
           /\ history' = Append(history, [text |-> input[t], nlp |-> nlp[t], result |-> r])
    /\ pc' = [pc EXCEPT ![t] = "idle"]
    /\ UNCHANGED <<NLP, loaded, attempts, input, handle, nlp, tdoc, raised,
                   callAttempts, startedLoaded, ncalls, overlap, engine>>
    /\ UNCHANGED pipeVars

\* lines 118-139: the rest of the call touches only its locals
Extract(t) ==
    /\ pc[t] = "extract"
    /\ LET r == ExtractionTable[input[t]][tdoc[t][1]]
       IN  /\ outcome' = [outcome EXCEPT ![t] = [kind |-> "result", value |-> r]]
           /\ history' = Append(history, [text |-> input[t], nlp |-> nlp[t], result |-> r])
    /\ pc' = [pc EXCEPT ![t] = "idle"]
    /\ UNCHANGED <<NLP, loaded, attempts, input, handle, nlp, tdoc, raised,
                   callAttempts, startedLoaded, ncalls, overlap, engine>>
    /\ UNCHANGED pipeVars

-----------------------------------------------------------------------------
(* Specifications *)

\* the process once the engine is loaded and no call is in progress
CallsIdle ==
    /\ NLP = 1
    /\ loaded = 1
    /\ attempts = 1
    /\ pc = [t \in Threads |-> "idle"]
    /\ input = [t \in Threads |-> <<>>]
    /\ handle = [t \in Threads |-> 0]
    /\ nlp = [t \in Threads |-> 0]
    /\ tdoc = [t \in Threads |-> <<>>]
    /\ outcome = [t \in Threads |-> NoOutcome]
    /\ raised = [t \in Threads |-> ""]
    /\ callAttempts = [t \in Threads |-> 0]
    /\ startedLoaded = [t \in Threads |-> FALSE]
    /\ ncalls = 0
    /\ history = <<>>
    /\ overlap = FALSE
    /\ engine = [x \in Inputs |-> EmptyDoc]

\* the locals of extract_entities before line 118
LocalsAt(at) ==
    /\ ppc = at
    /\ intent = None
    /\ rule_type = None
    /\ application = <<>>
    /\ attributes = <<>>
    /\ source_attrs = <<>>
    /\ identity_attrs = <<>>
    /\ result = <<>>

\* the module as imported: NLP = None, no call made
Init ==
    /\ NLP = 0
    /\ loaded = 0
    /\ attempts = 0
    /\ pc = [t \in Threads |-> "idle"]
    /\ input = [t \in Threads |-> <<>>]
    /\ handle = [t \in Threads |-> 0]
    /\ nlp = [t \in Threads |-> 0]
    /\ tdoc = [t \in Threads |-> <<>>]
    /\ outcome = [t \in Threads |-> NoOutcome]
    /\ raised = [t \in Threads |-> ""]
    /\ callAttempts = [t \in Threads |-> 0]
    /\ startedLoaded = [t \in Threads |-> FALSE]
    /\ ncalls = 0
    /\ history = <<>>
    /\ overlap = FALSE
    /\ engine \in [Inputs -> SampleDocs]
    /\ text = <<>>
    /\ doc = EmptyDoc
    /\ LocalsAt("off")

Next ==
    \E t \in Threads :
        \/ \E x \in Inputs : Call(t, x)
        \/ TestNLP(t)
        \/ LoadOk(t)
        \/ LoadFail(t)
        \/ StoreNLP(t)
        \/ ReturnNLP(t)
        \/ Analyze(t)
        \/ Extract(t)

Spec == Init /\ [][Next]_vars

\* one call on a text built from the classifiers' keywords
InitKw ==
    /\ CallsIdle
    /\ \E n \in 0..MaxFrags : \E fs \in [1..n -> KwFrags] : text = Flatten(fs)
    /\ doc \in SampleDocs
    /\ LocalsAt("intent")

SpecKw == InitKw /\ [][NextPipe]_vars

\* one call on a rule-type phrase followed by attribute tokens
InitRoute ==
    /\ CallsIdle
    /\ \E p \in RoutePrefixes : \E n \in 0..MaxAttrs : \E fs \in [1..n -> AttrFrags] :
          text = p \o Flatten(fs)
    /\ doc \in SampleDocs
    /\ LocalsAt("intent")

SpecRoute == InitRoute /\ [][NextPipe]_vars

\* line 121 on every short text over the pattern's characters (line 121 reads
\* the text alone, the doc plays no part)
InitAttr ==
    /\ CallsIdle
    /\ \E n \in 0..MaxLen : text \in [1..n -> AttrAlphabet]
    /\ doc = EmptyDoc
    /\ LocalsAt("attributes")

SpecAttr == InitAttr /\ [][StepAttributes]_vars

\* line 120 on every small doc (line 120 reads the doc alone)
InitDoc ==
    /\ CallsIdle
    /\ text = <<>>
    /\ \E n \in 0..MaxToks : \E tk \in TokenSeqs(n) : \E ch \in ChunkSeqs(1, n) :
          doc = [tokens |-> tk, chunks |-> ch]
    /\ LocalsAt("application")

SpecDoc == InitDoc /\ [][StepApplication]_vars

-----------------------------------------------------------------------------
(* Properties.  The keyword and preposition tests are restated here without *)
(* lower(): a word occurs in a text, in any letter case, when some run of   *)
(* the text's characters equals the word up to the case of each letter.     *)

SameLetter(c, k) ==
    \/ c = k
    \/ k \in Lowers /\ c = UpperSeq[CHOOSE i \in DOMAIN LowerSeq : LowerSeq[i] = k]

SameWord(s, w) ==
    Len(s) = Len(w) /\ \A j \in 1..Len(w) : SameLetter(s[j], w[j])

StartsWith(s, w) ==
    Len(s) >= Len(w) /\ \A j \in 1..Len(w) : SameLetter(s[j], w[j])

Occurs(w, s) ==
    \E i \in 0..(Len(s) - Len(w)) : \A j \in 1..Len(w) : SameLetter(s[i + j], w[j])

GenerateWords == { <<"c","r","e","a","t","e">>, <<"g","e","n","e","r","a","t","e">>, <<"m","a","k","e">>, <<"b","u","i","l","d">> }
ModifyWords == { <<"c","h","a","n","g","e">>, <<"m","o","d","i","f","y">>, <<"u","p","d","a","t","e">>, <<"a","m","e","n","d">> }
ExplainWords == { <<"e","x","p","l","a","i","n">>, <<"d","e","s","c","r","i","b","e">>, <<"w","h","a","t"," ","i","s">> }
BuildMapWords == { <<"b","u","i","l","d"," ","m","a","p">>, <<"b","u","i","l","d","m","a","p">> }
PreIterateWords == { <<"p","r","e","-","i","t","e","r","a","t","e">>, <<"p","r","e","i","t","e","r","a","t","e">> }
CorrelationWord == <<"c","o","r","r","e","l","a","t","i","o","n">>

HasAny(words, s) == \E w \in words : Occurs(w, s)

\* C4: once the intent is classified it is GenerateRule when a generate-verb
\* occurs in the text in any letter case, else ModifyRule when a modify-verb
\* occurs, else ExplainRule when an explain-phrase occurs, else absent.
C4_IntentPriority ==
    ppc # "intent" =>
        intent = IF HasAny(GenerateWords, text) THEN GENERATE_RULE
                 ELSE IF HasAny(ModifyWords, text) THEN MODIFY_RULE
                 ELSE IF HasAny(ExplainWords, text) THEN EXPLAIN_RULE
                 ELSE None

\* a modify-verb or explain-phrase comes first in the text, a generate-verb
\* after it, and the intent is GenerateRule
C4_Witness ==
    /\ ppc = "done"
    /\ intent = GENERATE_RULE
    /\ \E w \in ModifyWords \cup ExplainWords :
          StartsWith(text, w)

\* C5: once the rule type is classified it is Correlation when "correlation"
\* occurs in the text in any letter case, wherever it stands and whatever else
\* occurs; else BuildMap when "build map" or "buildmap" occurs; else PreIterate
\* when "pre-iterate" or "preiterate" occurs; else absent.
C5_RuleTypePriority ==
    ppc \notin {"intent", "rule_type"} =>
        rule_type = IF Occurs(CorrelationWord, text) THEN CORRELATION
                    ELSE IF HasAny(BuildMapWords, text) THEN BUILD_MAP
                    ELSE IF HasAny(PreIterateWords, text) THEN PRE_ITERATE
                    ELSE None

\* the text begins with a BuildMap or PreIterate keyword, "correlation" comes
\* later and not in lower case, and the rule type is Correlation
C5_Witness ==
    /\ ppc = "done"
    /\ rule_type = CORRELATION
    /\ ~Contains(CorrelationWord, text)
    /\ \E w \in BuildMapWords \cup PreIterateWords :
          StartsWith(text, w)

\* C10: a result whose rule type is BuildMap has intent GenerateRule, and so
\* has every result with a non-empty identity list (the two-token routing).
C10_BuildMapImpliesGenerate ==
    ppc = "done" =>
        /\ result[1].rule_type = BUILD_MAP => result[1].intent = GENERATE_RULE
        /\ result[1].identity_attributes # <<>> => result[1].intent = GENERATE_RULE

\* a BuildMap result with the two-token routing, of a text that holds no
\* generate-verb apart from the "build" inside the BuildMap keyword
C10_Witness ==
    /\ ppc = "done"
    /\ result[1].rule_type = BUILD_MAP
    /\ Len(result[1].identity_attributes) = 1
    /\ Len(attributes) > 2
    /\ ~HasAny(GenerateWords \ {<<"b","u","i","l","d">>}, text)

\* C2: once the attributes are routed, a BuildMap rule type with two or more
\* attribute tokens gives the first token alone as the source list and the
\* second alone as the identity list; any other rule type (absent too), or
\* fewer than two tokens, gives every token in order as the source list and an
\* empty identity list.  The result carries the two lists unchanged.
C2_Routing ==
    /\ ppc \in {"assemble", "done"} =>
          /\ attributes = _extract_attributes(text)
          /\ (rule_type = BUILD_MAP /\ Len(attributes) >= 2) =>
                /\ Len(source_attrs) = 1 /\ source_attrs[1] = attributes[1]
                /\ Len(identity_attrs) = 1 /\ identity_attrs[1] = attributes[2]
          /\ (rule_type # BUILD_MAP \/ Len(attributes) < 2) =>
                /\ source_attrs = attributes
                /\ identity_attrs = <<>>
    /\ ppc = "done" =>
          /\ result[1].source_attributes = source_attrs
          /\ result[1].identity_attributes = identity_attrs

\* a BuildMap text with three attribute tokens, the third dropped
C2_Witness ==
    /\ ppc = "done"
    /\ rule_type = BUILD_MAP
    /\ Len(attributes) = 3
    /\ attributes[3] \notin {attributes[1], attributes[2]}
    /\ result[1].source_attributes = <<attributes[1]>>
    /\ result[1].identity_attributes = <<attributes[2]>>

\* the preposition set, and a text that is one of them in any letter case
PrepositionWords == { <<"f","o","r">>, <<"f","r","o","m">>, <<"o","n">> }
IsPreposition(s) == \E w \in PrepositionWords : SameWord(s, w)

\* the tokens that are prepositional objects of one of the prepositions
PobjTokens(d) ==
    {i \in 1..Len(d.tokens) :
        d.tokens[i].dep = "pobj" /\ IsPreposition(d.tokens[d.tokens[i].head].text)}
\* the chunks that hold token i
ChunksOver(d, i) ==
    {k \in 1..Len(d.chunks) : d.chunks[k].start <= i /\ i < d.chunks[k].end}
\* the chunks whose root's head is one of the prepositions
PrepChunks(d) ==
    {k \in 1..Len(d.chunks) :
        IsPreposition(d.tokens[d.tokens[d.chunks[k].root].head].text)}
Least(S) == CHOOSE x \in S : \A y \in S : x <= y
SpanText(d, k) == JoinTexts(d.tokens, d.chunks[k].start, d.chunks[k].end)

\* C7: when some token is a prepositional object headed by for/from/on (in any
\* letter case) the application name is decided by the first such token: the
\* text of the noun chunk that holds it, or the token's own text when no chunk
\* does.  Only when there is no such token is it the text of the first noun
\* chunk whose root's head is one of the prepositions, and it is absent only
\* when there is no such chunk either.
C7_ApplicationName ==
    ppc = "attributes" =>
        IF PobjTokens(doc) # {}
        THEN LET i == Least(PobjTokens(doc))
             IN  IF ChunksOver(doc, i) # {}
                 THEN /\ Cardinality(ChunksOver(doc, i)) = 1
                      /\ application = <<SpanText(doc, Least(ChunksOver(doc, i)))>>
                 ELSE application = <<doc.tokens[i].text>>
        ELSE IF PrepChunks(doc) # {}
             THEN application = <<SpanText(doc, Least(PrepChunks(doc)))>>
             ELSE application = <<>>

\* two qualifying tokens with different answers: the first lies in no chunk,
\* the second in a chunk, and the name is the first token's text
C7_Witness ==
    /\ ppc = "attributes"
    /\ Cardinality(PobjTokens(doc)) = 2
    /\ ChunksOver(doc, 1) = {}
    /\ ChunksOver(doc, 2) # {}
    /\ doc.tokens[1].text # doc.tokens[2].text
    /\ application = <<doc.tokens[1].text>>

\* the shapes of the pattern's alternatives, stated on a stretch w of the text
IsCamelWord(w) ==
    \E k \in 1..(Len(w) - 1) :
        /\ \A i \in 1..k : w[i] \in Lowers
        /\ w[k + 1] \in Uppers
        /\ \A i \in (k + 2)..Len(w) : w[i] \in Lowers \cup Uppers \cup Digits \cup {"_"}
IsSnakeWord(w) ==
    /\ Len(w) >= 3
    /\ \A i \in 1..Len(w) : w[i] \in Lowers \cup Digits \cup {"_"}
    /\ \E i \in 1..Len(w) : w[i] = "_"
    /\ w[1] # "_" /\ w[Len(w)] # "_"
    /\ \A i \in 1..(Len(w) - 1) : ~(w[i] = "_" /\ w[i + 1] = "_")
IsQuotedLiteral(w) ==
    /\ Len(w) >= 3
    /\ w[1] \in {"'", "\""} /\ w[Len(w)] = w[1]
    /\ \A i \in 2..(Len(w) - 1) : w[i] \in Lowers \cup Uppers \cup Digits \cup {"_", "."}
IsLetterDigitUnderscore(s, i) ==
    i >= 1 /\ i <= Len(s) /\ s[i] \in Lowers \cup Uppers \cup Digits \cup {"_"}
\* the stretch a..b of s is an identifier or quoted literal the pattern accepts
IsAttrStretch(s, a, b) ==
    LET w == SubSeq(s, a, b)
    IN  \/ IsQuotedLiteral(w)
        \/ /\ IsCamelWord(w) \/ IsSnakeWord(w)
           /\ ~IsLetterDigitUnderscore(s, a - 1)
           /\ ~IsLetterDigitUnderscore(s, b + 1)

\* C8: the attribute list has one token per match, in the order of the matches,
\* which go left to right without overlap; each match is a camelCase or
\* snake_case identifier, returned as it stands in the text, or a quoted
\* literal, returned without its quotes; equal tokens stay (nothing is merged)
\* and no stretch of the text the pattern accepts lies clear of every match.
C8_AttributeTokens ==
    ppc = "route" =>
        LET ms == finditer(text, 1)
        IN  /\ Len(attributes) = Len(ms)
            /\ \A j \in 1..Len(ms) :
                  LET w == SubSeq(text, ms[j].start, ms[j].end - 1)
                  IN  /\ IsAttrStretch(text, ms[j].start, ms[j].end - 1)
                      /\ (IsCamelWord(w) \/ IsSnakeWord(w)) => attributes[j] = w
                      /\ IsQuotedLiteral(w) => attributes[j] = SubSeq(w, 2, Len(w) - 1)
            /\ \A j \in 1..(Len(ms) - 1) : ms[j].end <= ms[j + 1].start
            /\ \A a \in 1..Len(text) : \A b \in a..Len(text) :
                  IsAttrStretch(text, a, b) =>
                      \E j \in 1..Len(ms) : ms[j].start <= b /\ a < ms[j].end

\* an identifier followed by a quoted literal: two tokens, the second unquoted
C8_Witness ==
    /\ ppc = "route"
    /\ Len(attributes) = 2
    /\ IsCamelWord(attributes[1])
    /\ text[Len(text)] = "'"
    /\ Len(attributes[2]) = 1

\* C1: spacy.load returns an engine at most once in the life of the process,
\* and every call that returned used the same engine.
C1_LoadedAtMostOnce ==
    /\ loaded <= 1
    /\ \A i, j \in DOMAIN history : history[i].nlp = history[j].nlp

ResultFields ==
    {"intent", "rule_type", "application_name", "source_attributes", "identity_attributes"}

\* C3: a call in progress has given its caller nothing; a finished call has
\* given either a full result, and then its load (if any) did not fail, or the
\* very exception spacy.load raised in it; a call whose load failed has given
\* that exception and no result.
C3_FailurePropagates ==
    \A t \in Threads :
        /\ outcome[t].kind \in {"none", "result", "error"}
        /\ pc[t] # "idle" => outcome[t] = NoOutcome /\ raised[t] = ""
        /\ (pc[t] = "idle" /\ outcome[t].kind = "none") => input[t] = <<>>
        /\ outcome[t].kind = "error" =>
              /\ raised[t] \in LoadErrors
              /\ outcome[t].error = raised[t]
              /\ callAttempts[t] = 1 /\ handle[t] = 0
        /\ outcome[t].kind = "result" =>
              /\ raised[t] = ""
              /\ DOMAIN outcome[t].value = ResultFields
              /\ outcome[t].value = ExtractionTable[input[t]][engine[input[t]]]
        /\ raised[t] # "" => outcome[t].kind = "error"

\* one call has failed with the load's exception and another has returned a result
C3_Witness ==
    \E t, u \in Threads :
        /\ pc[t] = "idle" /\ outcome[t].kind = "error" /\ outcome[t].error = "OSError"
        /\ pc[u] = "idle" /\ outcome[u].kind = "result"
        /\ outcome[u].value.application_name # <<>>

AfterLoad == {"store", "ret", "analyze", "extract"}

C9_Calls ==
    \A t \in Threads :
        /\ callAttempts[t] <= 1
        /\ raised[t] # "" => callAttempts[t] = 1
        /\ startedLoaded[t] => callAttempts[t] = 0
        /\ (pc[t] = "idle" /\ handle[t] > 0) => outcome[t].kind = "result"
        /\ ( /\ ~overlap
             /\ ~startedLoaded[t]
             /\ pc[t] \in AfterLoad \/ (pc[t] = "idle" /\ outcome[t].kind # "none") )
           => callAttempts[t] = 1
        /\ ~overlap => loaded <= 1

C9_FailedLoadStep ==
    \A t \in Threads :
        (pc[t] = "load" /\ raised'[t] # "") =>
            /\ NLP' = NLP
            /\ UNCHANGED <<loaded, input, handle, nlp, tdoc, startedLoaded, ncalls,
                           history, overlap, engine>>
            /\ \A u \in Threads \ {t} :
                  /\ pc'[u] = pc[u]
                  /\ outcome'[u] = outcome[u]
                  /\ raised'[u] = raised[u]
                  /\ callAttempts'[u] = callAttempts[u]

\* C9: a failing load leaves NLP as it was and touches nothing but the failing
\* call; a call makes at most one load, a failed call exactly one; a call that
\* begins with NLP set makes none, and with calls made one after the other a
\* call that begins with NLP unset makes one, so that at most one load ever
\* returns an engine; a call whose load returned an engine returns a result.
C9_FailedLoadLeavesUnset == [][C9_FailedLoadStep]_vars /\ []C9_Calls

\* calls one after the other: a load failed, the next call loaded the engine
\* and returned a result
C9_Witness ==
    /\ ~overlap
    /\ attempts = 2
    /\ loaded = 1
    /\ NLP = 1
    /\ \E t \in Threads : pc[t] = "idle" /\ outcome[t].kind = "result" /\ callAttempts[t] = 1

=============================================================================
